---- MODULE Spec2Model ----
(***************************************************************************)
(* Model of the seller-apis synchronisation scripts: seller.py (Ozon) and  *)
(* market.py (Yandex.Market).  A remnants file is reconciled against the   *)
(* offer catalog of a platform and the resulting stock and price lists are *)
(* pushed to the platform in batches.                                      *)
(*                                                                         *)
(* Strings whose characters matter (raw quantities and raw prices) are     *)
(* sequences of one-character strings; offer codes are atomic strings.     *)
(***************************************************************************)
EXTENDS Integers, Sequences, FiniteSets, TLC

(***************************************************************************)
(* Bounds of the model.                                                    *)
(***************************************************************************)
MaxStrLen == 3
MaxRows == 2
MaxCat == 2
MaxCalls == 2
MaxClock == 1
MaxShop == 4
MaxPage == 2
MaxFetch == 3
MaxLen == 4
MaxBatch == 3

(***************************************************************************)
(* Characters and strings.                                                 *)
(***************************************************************************)
Digits == {"0", "1", "2", "3", "4", "5", "6", "7", "8", "9"}

DigitValue(c) ==
    CASE c = "0" -> 0 [] c = "1" -> 1 [] c = "2" -> 2 [] c = "3" -> 3
      [] c = "4" -> 4 [] c = "5" -> 5 [] c = "6" -> 6 [] c = "7" -> 7
      [] c = "8" -> 8 [] c = "9" -> 9

\* The characters raw fields are built from in the exhaustive runs.
Alphabet == {"0", "1", "7", ">", "-", "a", ".", "'"}

StringsUpTo(k) == UNION {[1..m -> Alphabet] : m \in 0..k}

\* Value of a non-empty string of decimal digits (leading zeros allowed).
RECURSIVE DecimalValue(_)
DecimalValue(s) ==
    IF s = <<>> THEN 0
    ELSE 10 * DecimalValue(SubSeq(s, 1, Len(s) - 1)) + DigitValue(s[Len(s)])

AllDigits(s) == \A j \in 1..Len(s) : s[j] \in Digits

\* Python int(str): optional sign, then at least one decimal digit; anything
\* else raises ValueError.
PyInt(s) ==
    LET signed == s # <<>> /\ s[1] \in {"-", "+"}
        body == IF signed THEN Tail(s) ELSE s
    IN  IF body = <<>> \/ ~AllDigits(body)
        THEN [ok |-> FALSE, val |-> 0]
        ELSE [ok |-> TRUE,
              val |-> IF signed /\ s[1] = "-" THEN 0 - DecimalValue(body)
                      ELSE DecimalValue(body)]

\* str.split(".")[0]: the part of the string before its first period.
RECURSIVE BeforeFirstPeriod(_)
BeforeFirstPeriod(s) ==
    IF s = <<>> \/ s[1] = "." THEN <<>>
    ELSE <<s[1]>> \o BeforeFirstPeriod(Tail(s))

\* re.sub("[^0-9]", "", s): the digits of s, in order.
RECURSIVE KeepDigits(_)
KeepDigits(s) ==
    IF s = <<>> THEN <<>>
    ELSE (IF s[1] \in Digits THEN <<s[1]>> ELSE <<>>) \o KeepDigits(Tail(s))

\* seller.price_conversion: returns a string.
price_conversion(price) == KeepDigits(BeforeFirstPeriod(price))

\* The quantity policy written inline in both create_stocks functions.
QuantityToStock(raw) ==
    IF raw = <<">", "1", "0">> THEN [ok |-> TRUE, val |-> 100]
    ELSE IF raw = <<"1">> THEN [ok |-> TRUE, val |-> 0]
    ELSE PyInt(raw)

(***************************************************************************)
(* Lists.                                                                  *)
(***************************************************************************)
InList(x, lst) == \E j \in 1..Len(lst) : lst[j] = x

\* list.remove(x) for an x that is in the list: drops its first occurrence.
RemoveFirst(lst, x) ==
    LET j == CHOOSE k \in 1..Len(lst) :
                 lst[k] = x /\ \A m \in 1..(k - 1) : lst[m] # x
    IN  SubSeq(lst, 1, j - 1) \o SubSeq(lst, j + 1, Len(lst))

NoDuplicates(lst) == \A a, b \in 1..Len(lst) : lst[a] = lst[b] => a = b

(***************************************************************************)
(* Record shapes of the two platforms.                                     *)
(***************************************************************************)
SellerStock(code, stock) == [offer_id |-> code, stock |-> stock]

MarketStock(code, stock, warehouse_id, date) ==
    [sku |-> code, warehouseId |-> warehouse_id,
     items |-> <<[count |-> stock, type |-> "FIT", updatedAt |-> date]>>]

StockRecord(platform, code, stock, warehouse_id, date) ==
    IF platform = "seller" THEN SellerStock(code, stock)
    ELSE MarketStock(code, stock, warehouse_id, date)

SellerPrice(code, price) ==
    [auto_action_enabled |-> "UNKNOWN", currency_code |-> "RUB",
     offer_id |-> code, old_price |-> "0", price |-> price]

MarketPrice(code, value) ==
    [id |-> code, price |-> [value |-> value, currencyId |-> "RUR"]]


OfferOfStock(platform, rec) ==
    IF platform = "seller" THEN rec.offer_id ELSE rec.sku

CountOfStock(platform, rec) ==
    IF platform = "seller" THEN rec.stock ELSE rec.items[1].count

OfferOfPrice(platform, rec) ==
    IF platform = "seller" THEN rec.offer_id ELSE rec.id

(***************************************************************************)
(* create_stocks.  The state of the loop is st = [ok, stocks, offer_ids]:  *)
(* offer_ids is the caller's list, which the loop changes in place; ok     *)
(* turns FALSE when int() raises ValueError, which ends the call without a *)
(* return value and keeps the removals made so far.                        *)
(***************************************************************************)
\* StocksRowStep without the offer_ids.remove(...) of line 165.
StocksRowStep_NoRemove(platform, watch, st, warehouse_id, date) ==
    IF ~st.ok \/ ~InList(watch.code, st.offer_ids) THEN st
    ELSE LET q == QuantityToStock(watch.qty)
         IN  IF ~q.ok THEN [st EXCEPT !.ok = FALSE]
             ELSE [st EXCEPT !.stocks = Append(st.stocks,
                       StockRecord(platform, watch.code, q.val, warehouse_id, date))]

\* One iteration of "for watch in watch_remnants".
StocksRowStep(platform, watch, st, warehouse_id, date) ==
    IF ~st.ok \/ ~InList(watch.code, st.offer_ids) THEN st
    ELSE LET q == QuantityToStock(watch.qty)
         IN  IF ~q.ok THEN [st EXCEPT !.ok = FALSE]
             ELSE [ok |-> TRUE,
                   stocks |-> Append(st.stocks,
                       StockRecord(platform, watch.code, q.val, warehouse_id, date)),
                   offer_ids |-> RemoveFirst(st.offer_ids, watch.code)]

RECURSIVE StocksLoop(_, _, _, _, _)
StocksLoop(platform, rows, st, warehouse_id, date) ==
    IF rows = <<>> THEN st
    ELSE StocksLoop(platform, Tail(rows),
                    StocksRowStep(platform, rows[1], st, warehouse_id, date),
                    warehouse_id, date)

\* AppendMissing with the zero records put in front of the matched ones.
AppendMissing_InFront(platform, stocks, ids, warehouse_id, date) ==
    [j \in 1..Len(ids) |-> StockRecord(platform, ids[j], 0, warehouse_id, date)]
        \o stocks

\* "for offer_id in offer_ids": a zero record for every id left in the list.
AppendMissing(platform, stocks, ids, warehouse_id, date) ==
    stocks \o [j \in 1..Len(ids) |->
                  StockRecord(platform, ids[j], 0, warehouse_id, date)]

create_stocks(platform, rows, ids, warehouse_id, date) ==
    LET st == StocksLoop(platform, rows,
                         [ok |-> TRUE, stocks |-> <<>>, offer_ids |-> ids],
                         warehouse_id, date)
    IN  IF st.ok
        THEN [ok |-> TRUE, offer_ids |-> st.offer_ids,
              result |-> AppendMissing(platform, st.stocks, st.offer_ids,
                                       warehouse_id, date)]
        ELSE [ok |-> FALSE, offer_ids |-> st.offer_ids, result |-> <<>>]

(***************************************************************************)
(* create_prices.  seller.py stores the string price_conversion returns;   *)
(* market.py passes it to int(), which raises ValueError on "".            *)
(***************************************************************************)
PriceValue(platform, raw) ==
    IF platform = "seller"
    THEN [ok |-> TRUE, val |-> price_conversion(raw)]
    ELSE PyInt(price_conversion(raw))

PricesRowStep(platform, watch, st, ids) ==
    IF ~st.ok \/ ~InList(watch.code, ids) THEN st
    ELSE LET v == PriceValue(platform, watch.price)
         IN  IF ~v.ok THEN [st EXCEPT !.ok = FALSE]
             ELSE [ok |-> TRUE,
                   prices |-> Append(st.prices,
                       IF platform = "seller" THEN SellerPrice(watch.code, v.val)
                       ELSE MarketPrice(watch.code, v.val))]

RECURSIVE PricesLoop(_, _, _, _)
PricesLoop(platform, rows, st, ids) ==
    IF rows = <<>> THEN st
    ELSE PricesLoop(platform, Tail(rows),
                    PricesRowStep(platform, rows[1], st, ids), ids)

create_prices(platform, rows, ids) ==
    LET st == PricesLoop(platform, rows, [ok |-> TRUE, prices |-> <<>>], ids)
    IN  IF st.ok THEN [ok |-> TRUE, result |-> st.prices]
        ELSE [ok |-> FALSE, result |-> <<>>]


(***************************************************************************)
(* State.                                                                  *)
(***************************************************************************)
VARIABLES
    platform,        \* "seller" (seller.py) or "market" (market.py)
    watch_remnants,  \* rows of the remnants file: [code, qty, price]
    offer_ids,       \* the caller's catalog list, shared with create_stocks
    now,             \* the UTC clock, in seconds
    calls,           \* the calls made so far, with arguments and results
    entry,           \* the entry point that runs: main, upload_stocks, upload_prices
    pc,              \* the network call or computation the run is at
    campaign,        \* the campaign the run works on
    shop,            \* the offers the platform holds
    page,            \* the cursor the next get_product_list call sends
    product_list,    \* the items get_offer_ids has accumulated
    fetches,         \* get_product_list calls of the current enumeration
    signalledAt,     \* the first fetch whose page signalled completion, or 0
    fetchFailedAt,   \* the get_product_list call that raised, or 0
    stocks,          \* the list create_stocks returned
    prices,          \* the list create_prices returned
    kind,            \* the list the upload loop is over: "stocks" or "prices"
    n,               \* its batch size
    chunks,          \* list(divide(...)) of that list
    idx,             \* the chunks the loop has been through
    sent,            \* the update requests issued, in order
    outcome          \* how the entry point ended, as its caller sees it

runVars == <<entry, pc, campaign, shop, page, product_list, fetches,
             signalledAt, fetchFailedAt, stocks, prices, kind, n, chunks, idx,
             sent, outcome>>

vars == <<platform, watch_remnants, offer_ids, now, calls, entry, pc, campaign,
          shop, page, product_list, fetches, signalledAt, fetchFailedAt, stocks,
          prices, kind, n, chunks, idx, sent, outcome>>

(***************************************************************************)
(* Inputs.                                                                 *)
(***************************************************************************)
Platforms == {"seller", "market"}

\* Offer codes a catalog is drawn from, and a code no catalog holds.
Codes == {"A1", "B2", "C3"}
RowCodes == {"A1", "B2", "X9"}

\* ">10", "7" and "abc".
QtySamples == {<<">", "1", "0">>, <<"7">>, <<"a", "b", "c">>}

\* "5'990.00 RUB." and "not-a-price".
GoodPrice == <<"5", "'", "9", "9", "0", ".", "0", "0", " ", "R", "U", "B", ".">>
BadPrice == <<"n", "o", "t", "-", "a", "-", "p", "r", "i", "c", "e">>

SeqsUpTo(S, k) == UNION {[1..m -> S] : m \in 0..k}

\* Catalogs: an offer id identifies one catalog entry.
Catalogs == {k \in SeqsUpTo(Codes, MaxCat) : NoDuplicates(k)}

Rows == [code : RowCodes, qty : QtySamples, price : {GoodPrice}]

WarehouseId == "WH"

EmptyCursor == 0 - 1

Running == [status |-> "running", printed |-> "", exc |-> "",
            failed_chunk |-> 0, succeeded |-> 0]

\* No entry point runs: the functions are called one by one.
NoRun ==
    /\ entry = "none"
    /\ pc = "idle"
    /\ campaign = ""
    /\ shop = <<>>
    /\ page = EmptyCursor
    /\ product_list = <<>>
    /\ fetches = 0
    /\ signalledAt = 0
    /\ fetchFailedAt = 0
    /\ stocks = <<>>
    /\ prices = <<>>
    /\ kind = ""
    /\ n = 1
    /\ chunks = <<>>
    /\ idx = 0
    /\ sent = <<>>
    /\ outcome = Running

(***************************************************************************)
(* Calls of create_stocks and create_prices by one caller that keeps its   *)
(* remnants and its catalog list between the calls.                        *)
(***************************************************************************)
CallCreateStocks ==
    /\ Len(calls) < MaxCalls
    /\ LET r == create_stocks(platform, watch_remnants, offer_ids, WarehouseId, now)
       IN  /\ offer_ids' = r.offer_ids
           /\ calls' = Append(calls,
                  [fn |-> "create_stocks", k_in |-> offer_ids, ok |-> r.ok,
                   result |-> r.result])
    /\ UNCHANGED <<platform, watch_remnants, now>>
    /\ UNCHANGED runVars

CallCreatePrices ==
    /\ Len(calls) < MaxCalls
    /\ LET r == create_prices(platform, watch_remnants, offer_ids)
       IN  calls' = Append(calls,
               [fn |-> "create_prices", k_in |-> offer_ids, ok |-> r.ok,
                result |-> r.result])
    /\ UNCHANGED <<platform, watch_remnants, offer_ids, now>>
    /\ UNCHANGED runVars

\* A second passes.
Tick ==
    /\ now < MaxClock
    /\ now' = now + 1
    /\ UNCHANGED <<platform, watch_remnants, offer_ids, calls>>
    /\ UNCHANGED runVars

ReconcileNext == CallCreateStocks \/ CallCreatePrices \/ Tick

ReconcileInit ==
    /\ platform \in Platforms
    /\ watch_remnants \in SeqsUpTo(Rows, MaxRows)
    /\ offer_ids \in Catalogs
    /\ now = 0
    /\ calls = <<>>
    /\ NoRun

SpecReconcile == ReconcileInit /\ [][ReconcileNext]_vars

\* One row, in the catalog, whose raw quantity and raw price are the same
\* string: every short string over Alphabet and the named samples.
NormInit ==
    /\ platform \in Platforms
    /\ \E raw \in StringsUpTo(MaxStrLen) \cup QtySamples \cup {GoodPrice, BadPrice} :
          watch_remnants = <<[code |-> "A1", qty |-> raw, price |-> raw]>>
    /\ offer_ids = <<"A1">>
    /\ now = 0
    /\ calls = <<>>
    /\ NoRun


SpecNorm == NormInit /\ [][ReconcileNext]_vars

(***************************************************************************)
(* Batching: divide and the batch sizes the upload loops pass to it.       *)
(***************************************************************************)
Min(a, b) == IF a < b THEN a ELSE b

\* lst[i : i + size], for a Python index i >= 0.
Slice(lst, i, size) == SubSeq(lst, i + 1, Min(i + size, Len(lst)))

\* divide that stops before a last chunk shorter than n.
RECURSIVE DivideFrom_FullOnly(_, _, _)
DivideFrom_FullOnly(lst, size, i) ==
    IF i + size > Len(lst) THEN <<>>
    ELSE <<Slice(lst, i, size)>> \o DivideFrom_FullOnly(lst, size, i + size)

\* "for i in range(i, len(lst), n): yield lst[i : i + n]", collected by list().
RECURSIVE DivideFrom(_, _, _)
DivideFrom(lst, size, i) ==
    IF i >= Len(lst) THEN <<>>
    ELSE <<Slice(lst, i, size)>> \o DivideFrom(lst, size, i + size)

\* divide without the shorter last chunk.
divide_FullOnly(lst, size) == DivideFrom_FullOnly(lst, size, 0)

divide(lst, size) == DivideFrom(lst, size, 0)

SellerStockBatch == 100
SellerMainPriceBatch == 900
SellerPriceBatch == 1000
MarketStockBatch == 2000
MarketPriceBatch == 500

BatchSize(plat, ent, knd) ==
    IF plat = "seller"
    THEN IF knd = "stocks" THEN SellerStockBatch
         ELSE IF ent = "main" THEN SellerMainPriceBatch ELSE SellerPriceBatch
    ELSE IF knd = "stocks" THEN MarketStockBatch ELSE MarketPriceBatch

(***************************************************************************)
(* The platform behind get_product_list: it holds the offers of shop and   *)
(* answers a request with some of those that follow the cursor, a next     *)
(* cursor and, on Ozon, a total.  Cursor p >= 0 stands for a token that    *)
(* resumes after p offers, EmptyCursor for "" (and for an absent token).   *)
(***************************************************************************)
ShopCodes == <<"A1", "B2", "C3", "D4", "E5", "F6">>

Entries == {"main", "upload_stocks", "upload_prices"}

Errors == {"ReadTimeout", "ConnectionError", "HTTPError"}

Item(plat, code) ==
    IF plat = "seller" THEN [offer_id |-> code]
    ELSE [offer |-> [shopSku |-> code]]

OfferIdOfItem(plat, item) ==
    IF plat = "seller" THEN item.offer_id ELSE item.offer.shopSku

\* The offer_ids list built from product_list at the end of get_offer_ids.
OfferIdsOf(plat, items) ==
    [j \in 1..Len(items) |-> OfferIdOfItem(plat, items[j])]

\* The totals Ozon may report: the size of the shop, or one more (an offer
\* the listing does not return).  Market reports none.
Totals == IF platform = "seller" THEN {Len(shop), Len(shop) + 1} ELSE {0}

Responses(cursor) ==
    LET start == IF cursor = EmptyCursor THEN 0 ELSE cursor
    IN  UNION {{[items |-> [j \in 1..k |-> Item(platform, shop[start + j])],
                 next |-> nx, total |-> t] :
                   nx \in {EmptyCursor, start + k}, t \in Totals} :
               k \in 0..Min(MaxPage, Len(shop) - start)}

\* The test that ends the "while True" loop of get_offer_ids.
LoopEnds(plat, resp, items) ==
    IF plat = "seller" THEN resp.total = Len(items)
    ELSE resp.next = EmptyCursor

\* The page tells the enumeration is complete: an empty next cursor, or, on
\* the platform that reports a total, as many items as the total.
Signals(plat, resp, items) ==
    \/ resp.next = EmptyCursor
    \/ plat = "seller" /\ resp.total = Len(items)

(***************************************************************************)
(* How an exception ends the entry point.  main catches it inside its try  *)
(* block, prints a message and returns; upload_stocks and upload_prices    *)
(* let it through.  The exceptions of requests and ValueError name no      *)
(* chunk and no progress.                                                  *)
(***************************************************************************)
HandlerMessage(exc) ==
    IF exc = "ReadTimeout" THEN "timeout message"
    ELSE IF exc = "ConnectionError" THEN "connection error message"
    ELSE "ERROR_2"

Raised(exc, inTry) ==
    IF entry = "main" /\ inTry
    THEN [status |-> "returned", printed |-> HandlerMessage(exc), exc |-> "",
          failed_chunk |-> 0, succeeded |-> 0]
    ELSE [status |-> "raised", printed |-> "", exc |-> exc,
          failed_chunk |-> 0, succeeded |-> 0]

Returned == [status |-> "returned", printed |-> "", exc |-> "",
             failed_chunk |-> 0, succeeded |-> 0]

Warehouse(camp) == IF camp = "DBS" THEN "WH_DBS" ELSE "WH_FBS"

(***************************************************************************)
(* The entry points.                                                       *)
(***************************************************************************)
\* download_stock returns the remnants (watch_remnants holds the file).
DownloadOk ==
    /\ pc = "download"
    /\ pc' = IF platform = "seller" THEN "reconcile" ELSE "fetch"
    /\ UNCHANGED <<platform, watch_remnants, offer_ids, now, calls, entry,
                   campaign, shop, page, product_list, fetches, signalledAt,
                   fetchFailedAt, stocks, prices, kind, n, chunks, idx, sent,
                   outcome>>

\* download_stock raises: inside the try block of seller.main, before the
\* try block of market.main.
DownloadFail ==
    /\ pc = "download"
    /\ \E exc \in Errors : outcome' = Raised(exc, platform = "seller")
    /\ pc' = "done"
    /\ UNCHANGED <<platform, watch_remnants, offer_ids, now, calls, entry,
                   campaign, shop, page, product_list, fetches, signalledAt,
                   fetchFailedAt, stocks, prices, kind, n, chunks, idx, sent>>

\* One turn of the loop of get_offer_ids whose get_product_list call
\* returns; when the loop ends, get_offer_ids returns the offer ids.
FetchPageOk ==
    /\ pc = "fetch"
    /\ fetches < MaxFetch
    /\ \E resp \in Responses(page) :
          LET items == product_list \o resp.items
              ends == LoopEnds(platform, resp, items)
          IN  /\ product_list' = items
              /\ page' = resp.next
              /\ signalledAt' = IF signalledAt = 0 /\ Signals(platform, resp, items)
                                THEN fetches + 1 ELSE signalledAt
              /\ offer_ids' = IF ends THEN OfferIdsOf(platform, items)
                              ELSE offer_ids
              /\ pc' = IF ~ends THEN "fetch"
                       ELSE IF platform = "seller" /\ entry = "main" THEN "download"
                       ELSE "reconcile"
    /\ fetches' = fetches + 1
    /\ UNCHANGED <<platform, watch_remnants, now, calls, entry, campaign, shop,
                   fetchFailedAt, stocks, prices, kind, n, chunks, idx, sent,
                   outcome>>

\* FetchPageFail with the failure swallowed: the loop ends and the offer
\* ids gathered so far are returned.
FetchPageFail_Swallowed ==
    /\ pc = "fetch"
    /\ fetches < MaxFetch
    /\ fetches' = fetches + 1
    /\ fetchFailedAt' = fetches + 1
    /\ offer_ids' = OfferIdsOf(platform, product_list)
    /\ pc' = IF platform = "seller" /\ entry = "main" THEN "download"
             ELSE "reconcile"
    /\ UNCHANGED <<platform, watch_remnants, now, calls, entry, campaign, shop,
                   page, product_list, signalledAt, stocks, prices, kind, n,
                   chunks, idx, sent, outcome>>

\* A get_product_list call raises (the request, or raise_for_status).
FetchPageFail ==
    /\ pc = "fetch"
    /\ fetches < MaxFetch
    /\ fetches' = fetches + 1
    /\ fetchFailedAt' = fetches + 1
    /\ \E exc \in Errors : outcome' = Raised(exc, TRUE)
    /\ pc' = "done"
    /\ UNCHANGED <<platform, watch_remnants, offer_ids, now, calls, entry,
                   campaign, shop, page, product_list, signalledAt, stocks,
                   prices, kind, n, chunks, idx, sent>>

\* The computation between the catalog and the first update request:
\* create_prices in upload_prices, create_stocks elsewhere, then divide.
Reconcile ==
    /\ pc = "reconcile"
    /\ IF entry = "upload_prices"
       THEN LET r == create_prices(platform, watch_remnants, offer_ids)
                size == BatchSize(platform, entry, "prices")
            IN  /\ prices' = r.result
                /\ kind' = "prices"
                /\ n' = size
                /\ chunks' = divide(r.result, size)
                /\ pc' = IF r.ok THEN "upload" ELSE "done"
                /\ outcome' = IF r.ok THEN outcome ELSE Raised("ValueError", TRUE)
                /\ UNCHANGED <<offer_ids, stocks>>
       ELSE LET r == create_stocks(platform, watch_remnants, offer_ids,
                                   Warehouse(campaign), now)
                size == BatchSize(platform, entry, "stocks")
            IN  /\ offer_ids' = r.offer_ids
                /\ stocks' = r.result
                /\ kind' = "stocks"
                /\ n' = size
                /\ chunks' = divide(r.result, size)
                /\ pc' = IF r.ok THEN "upload" ELSE "done"
                /\ outcome' = IF r.ok THEN outcome ELSE Raised("ValueError", TRUE)
                /\ UNCHANGED prices
    /\ idx' = 0
    /\ UNCHANGED <<platform, watch_remnants, now, calls, entry, campaign, shop,
                   page, product_list, fetches, signalledAt, fetchFailedAt, sent>>

\* update_stocks or update_price returns for the next chunk.
SubmitOk ==
    /\ pc = "upload"
    /\ idx < Len(chunks)
    /\ sent' = Append(sent, [kind |-> kind, campaign |-> campaign,
                             chunk |-> idx + 1, batch |-> chunks[idx + 1],
                             ok |-> TRUE])
    /\ idx' = idx + 1
    /\ UNCHANGED <<platform, watch_remnants, offer_ids, now, calls, entry, pc,
                   campaign, shop, page, product_list, fetches, signalledAt,
                   fetchFailedAt, stocks, prices, kind, n, chunks, outcome>>

\* update_stocks or update_price raises for the next chunk.
SubmitFail ==
    /\ pc = "upload"
    /\ idx < Len(chunks)
    /\ sent' = Append(sent, [kind |-> kind, campaign |-> campaign,
                             chunk |-> idx + 1, batch |-> chunks[idx + 1],
                             ok |-> FALSE])
    /\ \E exc \in Errors : outcome' = Raised(exc, TRUE)
    /\ pc' = "done"
    /\ UNCHANGED <<platform, watch_remnants, offer_ids, now, calls, entry,
                   campaign, shop, page, product_list, fetches, signalledAt,
                   fetchFailedAt, stocks, prices, kind, n, chunks, idx>>

\* What follows an upload loop.  seller.main goes on to the prices, with
\* the offer_ids list create_stocks has left.  market.main calls the
\* coroutine function upload_prices without awaiting it, which runs nothing
\* of it, and goes on to the DBS campaign.  Otherwise the entry returns.
AfterUpload ==
    /\ pc = "upload"
    /\ idx = Len(chunks)
    /\ IF entry = "main" /\ platform = "seller" /\ kind = "stocks"
       THEN LET r == create_prices(platform, watch_remnants, offer_ids)
            IN  /\ prices' = r.result
                /\ kind' = "prices"
                /\ n' = SellerMainPriceBatch
                /\ chunks' = divide(r.result, SellerMainPriceBatch)
                /\ idx' = 0
                /\ UNCHANGED <<pc, campaign, page, product_list, fetches,
                               signalledAt, outcome>>
       ELSE IF entry = "main" /\ platform = "market" /\ campaign = "FBS"
       THEN /\ campaign' = "DBS"
            /\ pc' = "fetch"
            /\ page' = EmptyCursor
            /\ product_list' = <<>>
            /\ fetches' = 0
            /\ signalledAt' = 0
            /\ UNCHANGED <<prices, kind, n, chunks, idx, outcome>>
       ELSE /\ pc' = "done"
            /\ outcome' = Returned
            /\ UNCHANGED <<campaign, page, product_list, fetches, signalledAt,
                           prices, kind, n, chunks, idx>>
    /\ UNCHANGED <<platform, watch_remnants, offer_ids, now, calls, entry, shop,
                   fetchFailedAt, stocks, sent>>

RunNext ==
    \/ DownloadOk \/ DownloadFail
    \/ FetchPageOk \/ FetchPageFail
    \/ Reconcile
    \/ SubmitOk \/ SubmitFail \/ AfterUpload
    \/ Tick

\* "1'500.00 RUB."
Price1500 == <<"1", "'", "5", "0", "0", ".", "0", "0", " ", "R", "U", "B", ".">>

\* The remnants files of the runs.
RunRemnants ==
    { <<>>,
      <<[code |-> "A1", qty |-> <<">", "1", "0">>, price |-> Price1500]>>,
      <<[code |-> "B2", qty |-> <<"7">>, price |-> GoodPrice],
        [code |-> "A1", qty |-> <<"1">>, price |-> Price1500]>>,
      <<[code |-> "A1", qty |-> <<"7">>, price |-> GoodPrice],
        [code |-> "A1", qty |-> <<">", "1", "0">>, price |-> Price1500]>>,
      <<[code |-> "A1", qty |-> <<"a", "b", "c">>, price |-> BadPrice]>> }

RunInit ==
    /\ platform \in Platforms
    /\ entry \in Entries
    /\ watch_remnants \in RunRemnants
    /\ shop \in {SubSeq(ShopCodes, 1, k) : k \in 0..Min(MaxShop, Len(ShopCodes))}
    /\ campaign = IF platform = "seller" THEN "OZON" ELSE "FBS"
    /\ pc = IF platform = "market" /\ entry = "main" THEN "download" ELSE "fetch"
    /\ offer_ids = <<>>
    /\ now = 0
    /\ calls = <<>>
    /\ page = EmptyCursor
    /\ product_list = <<>>
    /\ fetches = 0
    /\ signalledAt = 0
    /\ fetchFailedAt = 0
    /\ stocks = <<>>
    /\ prices = <<>>
    /\ kind = ""
    /\ n = 1
    /\ chunks = <<>>
    /\ idx = 0
    /\ sent = <<>>
    /\ outcome = Running

SpecRun == RunInit /\ [][RunNext]_vars

(***************************************************************************)
(* The upload loop on its own: the last loop of an entry point, over any   *)
(* list and with any batch size.                                           *)
(***************************************************************************)
UploadItems(plat, knd) ==
    IF knd = "stocks"
    THEN {StockRecord(plat, c, 0, Warehouse("DBS"), 0) : c \in {"A1", "B2"}}
    ELSE {IF plat = "seller" THEN SellerPrice(c, <<"7">>) ELSE MarketPrice(c, 7) :
             c \in {"A1", "B2"}}

UploadList == IF kind = "stocks" THEN stocks ELSE prices

UploadInit ==
    /\ platform \in Platforms
    /\ entry \in Entries
    /\ kind = IF entry = "upload_stocks" \/ (entry = "main" /\ platform = "market")
              THEN "stocks" ELSE "prices"
    /\ campaign = IF platform = "seller" THEN "OZON" ELSE "DBS"
    /\ \E lst \in SeqsUpTo(UploadItems(platform, kind), MaxLen) :
          /\ stocks = IF kind = "stocks" THEN lst ELSE <<>>
          /\ prices = IF kind = "prices" THEN lst ELSE <<>>
    /\ n \in 1..MaxBatch
    /\ chunks = divide(UploadList, n)
    /\ idx = 0
    /\ pc = "upload"
    /\ sent = <<>>
    /\ outcome = Running
    /\ watch_remnants = <<>>
    /\ offer_ids = <<>>
    /\ now = 0
    /\ calls = <<>>
    /\ shop = <<>>
    /\ page = EmptyCursor
    /\ product_list = <<>>
    /\ fetches = 0
    /\ signalledAt = 0
    /\ fetchFailedAt = 0

UploadNext == SubmitOk \/ SubmitFail \/ AfterUpload

SpecUpload == UploadInit /\ [][UploadNext]_vars

(***************************************************************************)
(* Reconciliation properties.                                              *)
(***************************************************************************)
StockCalls == {j \in 1..Len(calls) : calls[j].fn = "create_stocks"}
PriceCalls == {j \in 1..Len(calls) : calls[j].fn = "create_prices"}

RecordsFor(offer, result) ==
    {x \in 1..Len(result) : OfferOfStock(platform, result[x]) = offer}

RowsWithCode(code) ==
    {r \in 1..Len(watch_remnants) : watch_remnants[r].code = code}

\* C1: whenever create_stocks (seller.py or market.py) returns for a
\* duplicate-free catalog K, its result has exactly |K| records: every offer
\* of K is in exactly one record and no record carries an offer outside K,
\* whatever the remnants hold (repeated codes, codes outside K).
C1_OneStockPerOffer ==
    \A j \in StockCalls :
        LET c == calls[j]
        IN  (c.ok /\ NoDuplicates(c.k_in)) =>
                /\ Len(c.result) = Len(c.k_in)
                /\ \A m \in 1..Len(c.k_in) :
                       Cardinality(RecordsFor(c.k_in[m], c.result)) = 1
                /\ \A x \in 1..Len(c.result) :
                       InList(OfferOfStock(platform, c.result[x]), c.k_in)

\* C1 witness: create_stocks returned for a catalog of two offers while the
\* remnants repeat a code of the catalog.
C1_Witness ==
    \E j \in StockCalls :
        /\ calls[j].ok
        /\ Len(calls[j].k_in) = 2
        /\ \E a, b \in 1..Len(watch_remnants) :
               /\ a < b
               /\ watch_remnants[a].code = watch_remnants[b].code
               /\ InList(watch_remnants[a].code, calls[j].k_in)

\* C4: two create_stocks calls in a row on the same remnants and the same
\* catalog list, with nothing else changed in between (the clock has not
\* moved), return identical lists.
C4_StocksIdempotent ==
    \A j \in StockCalls :
        (j + 1 \in StockCalls /\ calls[j].ok /\ now = 0) =>
            /\ calls[j + 1].ok
            /\ calls[j + 1].result = calls[j].result

\* C7: the list create_prices returns holds no offer twice: one record for
\* every offer of K some row matches, none for the other offers of K and
\* none for codes outside K.
C7_OnePricePerOffer ==
    \A j \in PriceCalls :
        LET c == calls[j]
            of(x) == OfferOfPrice(platform, c.result[x])
        IN  c.ok =>
                /\ \A x, y \in 1..Len(c.result) : of(x) = of(y) => x = y
                /\ \A m \in 1..Len(c.k_in) :
                       (RowsWithCode(c.k_in[m]) # {}) <=>
                           (\E x \in 1..Len(c.result) : of(x) = c.k_in[m])
                /\ \A x \in 1..Len(c.result) : InList(of(x), c.k_in)

\* The rows that are the first of their code and whose code is in K.
FirstMatchRows(K) ==
    {r \in 1..Len(watch_remnants) :
        /\ InList(watch_remnants[r].code, K)
        /\ \A q \in 1..(r - 1) : watch_remnants[q].code # watch_remnants[r].code}

\* The p-th smallest member of a set of naturals.
NthOf(S, p) == CHOOSE r \in S : Cardinality({q \in S : q < r}) = p - 1

\* The offers of K no row matches, in the order of K.
Unmatched(K) == SelectSeq(K, LAMBDA o : RowsWithCode(o) = {})

\* C8: the list create_stocks returns starts with the matched offers, in the
\* order of their first matching row and with that row's normalized
\* quantity, followed by the unmatched offers of K in catalog order with
\* count 0; so empty remnants give count 0 to every offer of K and an empty
\* K gives an empty list.
C8_StocksOrder ==
    \A j \in StockCalls :
        LET c == calls[j]
            M == FirstMatchRows(c.k_in)
            m == Cardinality(M)
            U == Unmatched(c.k_in)
        IN  c.ok =>
                /\ Len(c.result) = m + Len(U)
                /\ \A x \in 1..Len(c.result) :
                       IF x <= m
                       THEN LET row == watch_remnants[NthOf(M, x)]
                            IN  /\ OfferOfStock(platform, c.result[x]) = row.code
                                /\ CountOfStock(platform, c.result[x]) =
                                       QuantityToStock(row.qty).val
                       ELSE /\ OfferOfStock(platform, c.result[x]) = U[x - m]
                            /\ CountOfStock(platform, c.result[x]) = 0
                /\ (watch_remnants = <<>>) =>
                       /\ Len(c.result) = Len(c.k_in)
                       /\ \A x \in 1..Len(c.result) :
                              CountOfStock(platform, c.result[x]) = 0
                /\ (c.k_in = <<>>) => c.result = <<>>

\* C8 witness: create_stocks returned for a catalog whose second offer is
\* matched by two rows of different quantities and whose first offer is
\* matched by none.
C8_Witness ==
    \E j \in StockCalls :
        /\ calls[j].ok
        /\ Len(calls[j].k_in) = 2
        /\ Len(watch_remnants) = 2
        /\ watch_remnants[1].code = calls[j].k_in[2]
        /\ watch_remnants[2].code = calls[j].k_in[2]
        /\ watch_remnants[1].qty # watch_remnants[2].qty


(***************************************************************************)
(* Normalization properties, on the one-row remnants of SpecNorm.          *)
(***************************************************************************)
TheRow == watch_remnants[1]

\* The calls in which the row's code was still in the catalog list.
MatchedCalls(S) == {j \in S : InList(TheRow.code, calls[j].k_in)}

\* C5: inside create_stocks ">10" gives count 100, "1" gives 0, any other
\* raw quantity that parses as an integer gives that integer, an
\* unparseable one makes the call fail, and a count is never negative.
C5_QuantityPolicy ==
    \A j \in MatchedCalls(StockCalls) :
        LET c == calls[j]
            raw == TheRow.qty
            special == raw \in {<<">", "1", "0">>, <<"1">>}
            count == CountOfStock(platform, c.result[1])
        IN  /\ (raw = <<">", "1", "0">>) => (c.ok /\ count = 100)
            /\ (raw = <<"1">>) => (c.ok /\ count = 0)
            /\ (~special /\ PyInt(raw).ok) => (c.ok /\ count = PyInt(raw).val)
            /\ (~special /\ ~PyInt(raw).ok) => ~c.ok
            /\ c.ok => count >= 0

\* The number the digits before the first period spell; 0 when there is none.
DigitsBeforePeriod(raw) ==
    LET lead == IF \E j \in 1..Len(raw) : raw[j] = "."
                THEN SubSeq(raw, 1,
                            (CHOOSE j \in 1..Len(raw) :
                                 raw[j] = "." /\ \A m \in 1..(j - 1) : raw[m] # ".") - 1)
                ELSE raw
    IN  SelectSeq(lead, LAMBDA ch : ch \in Digits)

\* C2: price normalization never fails; the price value create_prices
\* builds is the number spelled by the digits before the first period, and
\* is the number 0, not an error or an empty value, when there is no digit.
C2_PriceIsNumber ==
    \A j \in MatchedCalls(PriceCalls) :
        LET c == calls[j]
            expected == DecimalValue(DigitsBeforePeriod(TheRow.price))
        IN  /\ c.ok
            /\ IF platform = "seller"
               THEN /\ c.result[1].price # <<>>
                    /\ AllDigits(c.result[1].price)
                    /\ DecimalValue(c.result[1].price) = expected
               ELSE c.result[1].price.value = expected


(***************************************************************************)
(* Batching properties, on the upload loop of SpecUpload.                  *)
(***************************************************************************)
RECURSIVE Concat(_)
Concat(batches) ==
    IF batches = <<>> THEN <<>> ELSE batches[1] \o Concat(Tail(batches))

CeilDiv(a, b) == (a + b - 1) \div b

LoopCompleted == pc = "done" /\ \A k \in 1..Len(sent) : sent[k].ok

\* C3: over a list of length L with batch size B > 0 the upload loop issues
\* ceil(L / B) submissions, none when L = 0, each of B elements except
\* possibly the last, which has L - B * (ceil(L / B) - 1); the chunks
\* submitted, put end to end in submission order, are the list.
C3_UploadChunks ==
    LET L == Len(UploadList)
        need == CeilDiv(L, n)
    IN  /\ Len(sent) <= need
        /\ \A k \in 1..Len(sent) :
               /\ Len(sent[k].batch) = IF k < need THEN n ELSE L - n * (need - 1)
               /\ sent[k].batch = SubSeq(UploadList, (k - 1) * n + 1, Min(k * n, L))
        /\ LoopCompleted =>
               /\ Len(sent) = need
               /\ Concat([k \in 1..Len(sent) |-> sent[k].batch]) = UploadList

\* C3 witness: a loop over four elements with batch size three has ended
\* after a full chunk and a last chunk of one element.
C3_Witness ==
    /\ LoopCompleted
    /\ Len(UploadList) = 4
    /\ n = 3
    /\ Len(sent) = 2

\* C10: chunks are submitted in list order, one after the other; when the
\* submission of chunk i fails, the chunks before i have been submitted
\* once each and succeeded, chunk i is not retried, no later chunk is
\* submitted, and the caller receives the failure with the chunk that
\* failed and the chunks that succeeded before it.
C10_FailureReported ==
    \A k \in 1..Len(sent) :
        /\ sent[k].chunk = k
        /\ sent[k].batch = chunks[k]
        /\ ~sent[k].ok =>
               /\ k = Len(sent)
               /\ \A m \in 1..(k - 1) : sent[m].ok
               /\ outcome.status = "raised"
               /\ outcome.failed_chunk = k
               /\ outcome.succeeded = k - 1

(***************************************************************************)
(* Enumeration properties, on the runs of SpecRun.                         *)
(***************************************************************************)
\* C6: get_offer_ids starts from an empty cursor and stops at the first
\* page that signals completion (an empty next cursor, or as many items as
\* the reported total): no fetch follows that page and the offer ids of
\* exactly the pages fetched are returned.
C6_StopsAtSignal ==
    /\ (fetches = 0 /\ pc = "fetch") => page = EmptyCursor
    /\ (signalledAt > 0 /\ fetchFailedAt = 0) =>
           /\ pc # "fetch"
           /\ fetches = signalledAt
           /\ pc \in {"download", "reconcile"} =>
                  offer_ids = OfferIdsOf(platform, product_list)

\* C9: once a page fetch of get_offer_ids has failed, the enumeration is
\* over with the failure handed to its caller: no further page is fetched,
\* no offer-id list is returned (the run is over, and the lists of the run
\* hold nothing of this catalog), and no stock or price batch of that
\* catalog's campaign has been or will be submitted.
C9_FetchFailureAborts ==
    fetchFailedAt > 0 =>
        /\ pc = "done"
        /\ fetches = fetchFailedAt
        /\ outcome.status # "running"
        /\ entry # "main" => (outcome.status = "raised" /\ outcome.exc \in Errors)
        /\ entry = "main" => (outcome.status = "returned" /\ outcome.printed # "")
        /\ \A k \in 1..Len(sent) : sent[k].campaign # campaign
        /\ campaign # "DBS" => (offer_ids = <<>> /\ stocks = <<>> /\ prices = <<>>)
        /\ campaign = "DBS" =>
               \A x \in 1..Len(stocks) : stocks[x].warehouseId = Warehouse("FBS")

\* C9 witness: a page fetch failed after an earlier page had brought offers.
C9_Witness ==
    /\ fetchFailedAt > 1
    /\ product_list # <<>>

(***************************************************************************)
(* End-to-end property of main, on the runs of SpecRun.                    *)
(***************************************************************************)
\* main has returned and no call of the run has failed.
MainSucceeded ==
    /\ entry = "main"
    /\ pc = "done"
    /\ outcome = Returned
    /\ fetchFailedAt = 0
    /\ \A k \in 1..Len(sent) : sent[k].ok

\* A price batch of the campaign that holds a record for the offer.
PriceSentFor(code) ==
    \E k \in 1..Len(sent) :
        /\ sent[k].kind = "prices"
        /\ sent[k].campaign = campaign
        /\ \E x \in 1..Len(sent[k].batch) :
               OfferOfPrice(platform, sent[k].batch[x]) = code

\* C11: when seller.main or market.main returns from a run in which no
\* call failed, a price update has been submitted for every remnant row
\* whose code is in the catalog fetched for the run (the price step works
\* on the full catalog the stock step worked on).
C11_PricesSubmitted ==
    MainSucceeded =>
        \A r \in 1..Len(watch_remnants) :
            InList(watch_remnants[r].code, OfferIdsOf(platform, product_list)) =>
                PriceSentFor(watch_remnants[r].code)

\* The same for seller.main alone, and for market.main alone.
C11_SellerMain == platform = "seller" => C11_PricesSubmitted

C11_MarketMain == platform = "market" => C11_PricesSubmitted

====
